---- MODULE Spec2Model ----
(***************************************************************************)
(* KokoAI RSS summarizer (src/main.py): the feed list is loaded, the       *)
(* summarization client is connected and its model initialised, and then   *)
(* every feed is fetched into raw_feed.xml, parsed into today's articles,  *)
(* and every article is summarized and posted to Slack.                    *)
(*                                                                         *)
(* Time is counted in hours since an arbitrary epoch; a calendar date is   *)
(* the number of whole days (hours \div 24).  Text is a tuple of           *)
(* characters, " " being whitespace.                                       *)
(***************************************************************************)
EXTENDS Integers, Sequences, FiniteSets, TLC

VARIABLES
  feeds_txt,   \* the file feeds.txt
  pc,          \* position of main(): load, connect, model, fetch, parse,
               \* summarize, notify, done (return, status 0), exit1
               \* (exit(1)), crashed (uncaught exception, status 1)
  slack_token, \* os.getenv("SLACK_API_TOKEN") is set
  local_off,   \* UTC offset (hours) of the process's local timezone
  now_utc,     \* the clock, in hours UTC
  urls,        \* main: urls
  client,      \* the Ollama client: none, connected, ready (custom_model made)
  idx,         \* main: position of `for url in urls` (1-based)
  filename,    \* main: filename ("none" for None)
  raw_feed,    \* the file raw_feed.xml on disk
  articles,    \* main: articles
  aidx,        \* main: position of `for title, link, content in articles`
  response,    \* main: response
  posted,      \* the last message handed to chat_postMessage
  lastCall,    \* the most recent call main() made, and how it ended
  feedLog      \* per feed iteration begun: what was done for that feed

vars == <<feeds_txt, pc, slack_token, local_off, now_utc, urls, client, idx, filename, raw_feed,
          articles, aidx, response, posted, lastCall, feedLog>>

\* ------------------------------------------------------------------ bounds
\* lines in feeds.txt
MaxLines == 2
\* <item> elements in one feed document
MaxItems == 2

\* ------------------------------------------------------------------ text
RECURSIVE lstrip(_)
lstrip(s) == IF s # <<>> /\ Head(s) = " " THEN lstrip(Tail(s)) ELSE s

RECURSIVE rstrip(_)
rstrip(s) ==
  IF s # <<>> /\ s[Len(s)] = " " THEN rstrip(SubSeq(s, 1, Len(s) - 1)) ELSE s

\* str.strip()
strip(s) == rstrip(lstrip(s))

\* ---------------------------------------------------------- XML elements
\* A child element of an <item>: absent (find() gives None), empty (the
\* element is there and its .text is None), or carrying text.
Absent == [kind |-> "absent", text |-> <<>>]
Empty == [kind |-> "empty", text |-> <<>>]
Elem(t) == [kind |-> "text", text |-> t]

\* item.findtext(path, ""): the default when the element is absent, "" when
\* its text is None
findtext(e) == IF e.kind = "text" THEN e.text ELSE <<>>

\* ------------------------------------------------------------------ dates
\* The text of a <pubDate>: an RFC 2822 date with the wall-clock fields
\* `wall` and either a numeric zone `off` or no zone, or something else.
DateText(wall, zone, off) == [form |-> "rfc2822", wall |-> wall, zone |-> zone, off |-> off]
Garbage == [form |-> "garbage", wall |-> 0, zone |-> "none", off |-> 0]
NoDate == [kind |-> "absent", text |-> Garbage]
EmptyDate == [kind |-> "empty", text |-> Garbage]
PubDate(d) == [kind |-> "text", text |-> d]

\* email.utils.parsedate_to_datetime raises on None and on what is no date
parsedate_raises(e) == e.kind # "text" \/ e.text.form # "rfc2822"

\* datetime.astimezone(timezone.utc): an aware datetime is shifted by its own
\* offset, a naive one is taken to be in the process's local timezone
astimezone_utc(d, localOff) ==
  IF d.zone = "offset" THEN d.wall - d.off ELSE d.wall - localOff

\* datetime.date()
date(hours) == hours \div 24

\* datetime.now().date()
today(nowUtc, localOff) == date(nowUtc + localOff)

\* ------------------------------------------------------------ feed items
Item(p, t, l, c) == [pubDate |-> p, title |-> t, link |-> l, content |-> c]

\* the loop body without its except branch around the date parsing
item_outcome_date_uncaught(item, td, localOff) ==
  IF item.pubDate.kind = "absent" THEN "skip"
  ELSE IF parsedate_raises(item.pubDate) THEN "raise"
  ELSE IF date(astimezone_utc(item.pubDate.text, localOff)) # td THEN "skip"
  ELSE IF item.content.kind = "empty" THEN "raise"
  ELSE IF /\ strip(findtext(item.title)) # <<>>
          /\ strip(findtext(item.link)) # <<>>
          /\ strip(item.content.text) # <<>>
       THEN "append"
       ELSE "skip"

\* one pass of the loop body of get_feed_content: the item is skipped, is
\* appended as an article, or makes the function raise (AttributeError from
\* content_elem.text.strip() when the element has no text)
item_outcome(item, td, localOff) ==
  IF item.pubDate.kind = "absent" THEN "skip"
  ELSE IF parsedate_raises(item.pubDate) THEN "skip"
  ELSE IF date(astimezone_utc(item.pubDate.text, localOff)) # td THEN "skip"
  ELSE IF item.content.kind = "empty" THEN "raise"
  ELSE IF /\ strip(findtext(item.title)) # <<>>
          /\ strip(findtext(item.link)) # <<>>
          /\ strip(item.content.text) # <<>>
       THEN "append"
       ELSE "skip"

\* the tuple appended to articles
article(item) ==
  <<strip(findtext(item.title)), strip(findtext(item.link)), strip(item.content.text)>>

\* `for item in root.findall(".//item")`
RECURSIVE extract_items(_, _, _)
extract_items(items, td, localOff) ==
  IF items = <<>> THEN [raised |-> FALSE, articles |-> <<>>]
  ELSE LET o == item_outcome(Head(items), td, localOff)
           rest == extract_items(Tail(items), td, localOff)
       IN IF o = "raise" \/ rest.raised THEN [raised |-> TRUE, articles |-> <<>>]
          ELSE IF o = "append"
               THEN [raised |-> FALSE, articles |-> <<article(Head(items))>> \o rest.articles]
               ELSE rest

\* raw_feed.xml: not there, or holding bytes that are well-formed XML with
\* these items, or bytes that are not
NoFile == [exists |-> FALSE, wellformed |-> FALSE, items |-> <<>>]
Malformed == [exists |-> TRUE, wellformed |-> FALSE, items |-> <<>>]
Document(items) == [exists |-> TRUE, wellformed |-> TRUE, items |-> items]

\* get_feed_content without its except XMLSyntaxError branch
get_feed_content_uncaught(file, nowUtc, localOff) ==
  IF ~file.exists \/ ~file.wellformed THEN [raised |-> TRUE, articles |-> <<>>]
  ELSE extract_items(file.items, today(nowUtc, localOff), localOff)

\* get_feed_content(file): etree.parse raises OSError without the file (not
\* caught) and XMLSyntaxError on bytes that are no XML (caught: no articles)
get_feed_content(file, nowUtc, localOff) ==
  IF ~file.exists THEN [raised |-> TRUE, articles |-> <<>>]
  ELSE IF ~file.wellformed THEN [raised |-> FALSE, articles |-> <<>>]
  ELSE extract_items(file.items, today(nowUtc, localOff), localOff)

\* ------------------------------------------------------------- feeds.txt
\* get_feed_list(): the stripped non-blank lines, or exit(1) without the file
RECURSIVE stripped_lines(_)
stripped_lines(lines) ==
  IF lines = <<>> THEN <<>>
  ELSE IF strip(Head(lines)) # <<>>
       THEN <<strip(Head(lines))>> \o stripped_lines(Tail(lines))
       ELSE stripped_lines(Tail(lines))

\* get_feed_list keeping the first occurrence of each url only
RECURSIVE first_occurrences(_)
first_occurrences(us) ==
  IF us = <<>> THEN <<>>
  ELSE LET init == first_occurrences(SubSeq(us, 1, Len(us) - 1))
       IN IF \E i \in 1..(Len(us) - 1) : us[i] = us[Len(us)]
          THEN init
          ELSE Append(init, us[Len(us)])
get_feed_list_dedup(file) ==
  IF ~file.exists THEN [exit |-> TRUE, urls |-> <<>>]
  ELSE [exit |-> FALSE, urls |-> first_occurrences(stripped_lines(file.lines))]

\* get_feed_list with exit(1) for an empty list
get_feed_list_empty_fatal(file) ==
  IF ~file.exists \/ stripped_lines(file.lines) = <<>> THEN [exit |-> TRUE, urls |-> <<>>]
  ELSE [exit |-> FALSE, urls |-> stripped_lines(file.lines)]

get_feed_list(file) ==
  IF ~file.exists THEN [exit |-> TRUE, urls |-> <<>>]
  ELSE [exit |-> FALSE, urls |-> stripped_lines(file.lines)]

\* ---------------------------------------------------------------- inputs
SeqsUpTo(S, n) == UNION {[1..k -> S] : k \in 0..n}

\* lines of feeds.txt: a blank one, a URL, a URL with whitespace around it
Lines == {<<" ">>, <<"a">>, <<" ", "b", " ">>}
Configs ==
  {[exists |-> FALSE, lines |-> <<>>]}
    \cup {[exists |-> TRUE, lines |-> ls] : ls \in SeqsUpTo(Lines, MaxLines)}

\* the clock (02:00 and 22:00 UTC of day 10) and the local zones
Clocks == {242, 262}
Offsets == {-5, 0, 9}
\* the clock and the local zone at a run of main
RunClocks == {262}
RunOffsets == {0, 9}

T == <<"T">>
L == <<"L">>
C == <<"C">>
\* 03:00 UTC of day 10, written in UTC
TodayUtc == PubDate(DateText(243, "offset", 0))
\* 21:00 UTC of day 10, written with zone +0900 (06:00 of day 11)
TodayLate == PubDate(DateText(270, "offset", 9))
\* 22:00 UTC of day 9
Yesterday == PubDate(DateText(238, "offset", 0))

\* what an earlier run left in raw_feed.xml
StaleBody == Document(<<Item(Yesterday, Elem(T), Elem(L), Elem(C))>>)

\* the items of the feeds the run fetches
FeedItems ==
  { Item(TodayUtc, Elem(<<" ", "T">>), Elem(L), Elem(<<"C", " ">>)),
    Item(TodayLate, Elem(<<"U">>), Elem(<<"M">>), Elem(<<"D">>)),
    Item(TodayUtc, Elem(T), Elem(L), Empty) }
FeedBodies == {Malformed} \cup {Document(is) : is \in SeqsUpTo(FeedItems, MaxItems)}

\* requests.RequestException: timeout, raise_for_status, connection failure
FetchFailures == {"timeout", "http_error", "connection_error"}

\* ------------------------------------------------------------------ main
Terminal == {"done", "exit1", "crashed"}
NoCall == [op |-> "none", result |-> "none"]
Call(op, result) == [op |-> op, result |-> result]
\* the entry of feedLog for the iteration of `for url in urls` on url: how
\* the fetch ended (ok, failed), what get_feed_content was given (none when
\* it was not called, wellformed, malformed), the calls of ai_summary and of
\* send_slack_message made, and how many items of the document qualify
\* the message with the link where the title belongs and the title where
\* the link belongs
slack_post_swapped(title, message, link) ==
  [title |-> link, message |-> message, link |-> title]

\* chat_postMessage(text=f"{title}: {message}", blocks=[... <{link}|{title}>
\* ... {message}]): the parts of the message
slack_post(title, message, link) == [title |-> title, message |-> message, link |-> link]
NoPost == slack_post(<<>>, <<>>, <<>>)

NewFeed(url, fetch) ==
  [url |-> url, fetch |-> fetch, parse |-> "none", summarized |-> 0, notified |-> 0,
   qualifying |-> 0]

Init ==
  /\ feeds_txt \in Configs
  /\ pc = "load"
  /\ slack_token \in BOOLEAN
  /\ local_off \in RunOffsets
  /\ now_utc \in RunClocks
  /\ urls = <<>>
  /\ client = "none"
  /\ idx = 0
  /\ filename = "none"
  /\ raw_feed \in {NoFile, StaleBody}
  /\ articles = <<>>
  /\ aidx = 0
  /\ response = <<>>
  /\ posted = NoPost
  /\ lastCall = NoCall
  /\ feedLog = <<>>

\* main, lines 131-134: urls = get_feed_list(); return when there are none
LoadSources ==
  /\ pc = "load"
  /\ LET r == get_feed_list(feeds_txt)
     IN /\ urls' = r.urls
        /\ pc' = IF r.exit THEN "exit1" ELSE IF r.urls = <<>> THEN "done" ELSE "connect"
        /\ lastCall' = Call("get_feed_list", IF feeds_txt.exists THEN "ok" ELSE "not_found")
  /\ UNCHANGED <<feeds_txt, slack_token, local_off, now_utc, client, idx, filename,
                 raw_feed, articles, aidx, response, posted, feedLog>>

\* main, line 140: client = ai_connect(ollama_host); client.ps() may raise
AiConnect ==
  /\ pc = "connect"
  /\ \E ok \in BOOLEAN :
       /\ client' = IF ok THEN "connected" ELSE client
       /\ pc' = IF ok THEN "model" ELSE "exit1"
       /\ lastCall' = Call("ai_connect", IF ok THEN "ok" ELSE "failed")
  /\ UNCHANGED <<feeds_txt, slack_token, local_off, now_utc, urls, idx, filename,
                 raw_feed, articles, aidx, response, posted, feedLog>>

\* ai_model logging the failure without exit(1): the loop over urls begins
\* with no custom_model
AiModel_no_exit ==
  /\ pc = "model"
  /\ \E ok \in BOOLEAN :
       /\ client' = IF ok THEN "ready" ELSE client
       /\ pc' = "fetch"
       /\ idx' = 1
       /\ lastCall' = Call("ai_model", IF ok THEN "ok" ELSE "failed")
  /\ UNCHANGED <<feeds_txt, slack_token, local_off, now_utc, urls, filename,
                 raw_feed, articles, aidx, response, posted, feedLog>>

\* main, line 150: ai_model(client, model, system_ops); pull, create or show
\* may raise.  Then the loop over urls begins.
AiModel ==
  /\ pc = "model"
  /\ \E ok \in BOOLEAN :
       /\ client' = IF ok THEN "ready" ELSE client
       /\ pc' = IF ok THEN "fetch" ELSE "exit1"
       /\ idx' = IF ok THEN 1 ELSE idx
       /\ lastCall' = Call("ai_model", IF ok THEN "ok" ELSE "failed")
  /\ UNCHANGED <<feeds_txt, slack_token, local_off, now_utc, urls, filename,
                 raw_feed, articles, aidx, response, posted, feedLog>>

\* `break` in place of `continue`
NextFeed_break ==
  /\ pc' = "done"
  /\ idx' = idx

\* `for url in urls`: the next url, or the end of main
NextFeed ==
  /\ pc' = IF idx < Len(urls) THEN "fetch" ELSE "done"
  /\ idx' = IF idx < Len(urls) THEN idx + 1 ELSE idx

\* save_feed_raw returning the file's name from its except branch too
save_feed_raw_always_named(outcome) == "raw_feed.xml"

\* save_feed_raw(url): None on a RequestException, else the file's name
save_feed_raw(outcome) == IF outcome \in FetchFailures THEN "none" ELSE "raw_feed.xml"

\* main, lines 153-156: filename = save_feed_raw(url), which writes the
\* body it got to raw_feed.xml; `continue` when there is no filename
FetchFeed ==
  /\ pc = "fetch"
  /\ \E outcome \in FetchFailures \cup {"ok"} :
       \E body \in IF outcome = "ok" THEN FeedBodies ELSE {raw_feed} :
         /\ filename' = save_feed_raw(outcome)
         /\ raw_feed' = body
         /\ lastCall' = Call("save_feed_raw", outcome)
         /\ feedLog' = Append(feedLog,
                              NewFeed(urls[idx], IF outcome = "ok" THEN "ok" ELSE "failed"))
         /\ IF filename' = "none" THEN NextFeed ELSE pc' = "parse" /\ idx' = idx
  /\ UNCHANGED <<feeds_txt, slack_token, local_off, now_utc, urls, client,
                 articles, aidx, response, posted>>

\* the items of a document that the specification's filter keeps: a date
\* that parses and falls on today's UTC calendar date, and a title, a link
\* and an encoded content that are non-empty after trimming
Qualifies(item, nowUtc, localOff) ==
  /\ ~parsedate_raises(item.pubDate)
  /\ date(astimezone_utc(item.pubDate.text, localOff)) = date(nowUtc)
  /\ strip(item.title.text) # <<>>
  /\ strip(item.link.text) # <<>>
  /\ strip(item.content.text) # <<>>

RECURSIVE QualifyingArticles(_, _, _)
QualifyingArticles(items, nowUtc, localOff) ==
  IF items = <<>> THEN <<>>
  ELSE (IF Qualifies(Head(items), nowUtc, localOff)
        THEN <<<<strip(Head(items).title.text), strip(Head(items).link.text),
                 strip(Head(items).content.text)>>>>
        ELSE <<>>) \o QualifyingArticles(Tail(items), nowUtc, localOff)

\* main, lines 158-161: articles = get_feed_content(filename); `continue`
\* when there are none.  An exception get_feed_content does not catch ends
\* main.
ParseFeed ==
  /\ pc = "parse"
  /\ LET r == get_feed_content(raw_feed, now_utc, local_off)
         n == Len(feedLog)
     IN /\ lastCall' = Call("get_feed_content", IF r.raised THEN "raised" ELSE "returned")
        /\ feedLog' = [feedLog EXCEPT
                         ![n].parse = IF raw_feed.wellformed THEN "wellformed" ELSE "malformed",
                         ![n].qualifying =
                            Len(QualifyingArticles(raw_feed.items, now_utc, local_off))]
        /\ IF r.raised
           THEN pc' = "crashed" /\ UNCHANGED <<articles, aidx, idx>>
           ELSE /\ articles' = r.articles
                /\ IF r.articles = <<>>
                   THEN aidx' = 0 /\ NextFeed
                   ELSE aidx' = 1 /\ pc' = "summarize" /\ idx' = idx
  /\ UNCHANGED <<feeds_txt, slack_token, local_off, now_utc, urls, client, filename,
                 raw_feed, response, posted>>

\* what client.generate answers for a prompt
Summary(content) == <<"S">> \o content

\* ai_summary logging the failure and returning an empty response
ai_summary_swallows(ok, text) ==
  [exit |-> FALSE, response |-> IF ok THEN Summary(text) ELSE <<>>]

\* ai_summary(client, text): the response, or exit(1) when generate fails
ai_summary(ok, text) ==
  IF ok THEN [exit |-> FALSE, response |-> Summary(text)]
  ELSE [exit |-> TRUE, response |-> <<>>]

\* main, line 164: response = ai_summary(client, content)
Summarize ==
  /\ pc = "summarize"
  /\ \E ok \in BOOLEAN :
       LET r == ai_summary(ok, articles[aidx][3])
       IN /\ response' = IF r.exit THEN response ELSE r.response
          /\ pc' = IF r.exit THEN "exit1" ELSE "notify"
          /\ lastCall' = Call("ai_summary", IF ok THEN "ok" ELSE "failed")
  /\ feedLog' = [feedLog EXCEPT ![Len(feedLog)].summarized = @ + 1]
  /\ UNCHANGED <<feeds_txt, slack_token, local_off, now_utc, urls, client, idx, filename,
                 raw_feed, articles, aidx, posted>>

\* what chat_postMessage does: acknowledges, answers ok = False, or raises
PostOutcomes == {"ok", "not_ok", "raised"}

\* send_slack_message with exit(1) in its except branch
send_slack_message_fatal_raise(token, outcome) ==
  IF ~token \/ outcome = "raised" THEN "exit" ELSE "return"

\* send_slack_message posting without looking at the token
send_slack_message_unchecked(token, outcome) == "return"

\* send_slack_message(title, message, link): exit(1) without the token;
\* otherwise the message is posted, a failure is logged, and it returns
send_slack_message(token, outcome) == IF ~token THEN "exit" ELSE "return"

\* main with `break` after send_slack_message: the feed's other articles
\* are left out
Notify_break_inner ==
  /\ pc = "notify"
  /\ feedLog' = [feedLog EXCEPT ![Len(feedLog)].notified = @ + 1]
  /\ \E outcome \in IF slack_token THEN PostOutcomes ELSE {"no_token"} :
       /\ lastCall' = Call("send_slack_message", outcome)
       /\ posted' = IF outcome = "no_token" THEN posted
                    ELSE slack_post(articles[aidx][1], response, articles[aidx][2])
       /\ IF send_slack_message(slack_token, outcome) = "exit"
          THEN pc' = "exit1" /\ UNCHANGED <<idx, aidx>>
          ELSE aidx' = aidx /\ NextFeed
  /\ UNCHANGED <<feeds_txt, slack_token, local_off, now_utc, urls, client, filename,
                 raw_feed, articles, response>>

\* main, line 165: send_slack_message(title, response, link), then the next
\* article, or the next feed
Notify ==
  /\ pc = "notify"
  /\ feedLog' = [feedLog EXCEPT ![Len(feedLog)].notified = @ + 1]
  /\ \E outcome \in IF slack_token THEN PostOutcomes ELSE {"no_token"} :
       /\ lastCall' = Call("send_slack_message", outcome)
       /\ posted' = IF outcome = "no_token" THEN posted
                    ELSE slack_post(articles[aidx][1], response, articles[aidx][2])
       /\ IF send_slack_message(slack_token, outcome) = "exit"
          THEN pc' = "exit1" /\ UNCHANGED <<idx, aidx>>
          ELSE IF aidx < Len(articles)
               THEN aidx' = aidx + 1 /\ pc' = "summarize" /\ idx' = idx
               ELSE aidx' = aidx /\ NextFeed
  /\ UNCHANGED <<feeds_txt, slack_token, local_off, now_utc, urls, client, filename,
                 raw_feed, articles, response>>

Next ==
  \/ LoadSources
  \/ AiConnect
  \/ AiModel
  \/ FetchFeed
  \/ ParseFeed
  \/ Summarize
  \/ Notify

Spec == Init /\ [][Next]_vars

\* every call main makes returns
FairSpec == Spec /\ WF_vars(Next)

\* ------------------------------------------- get_feed_content on its own
\* publication instants around day 10 (22:00 of day 9, 03:00 and 21:00 of
\* day 10, 02:00 of day 11, UTC), each written in three zones and, as wall
\* clock fields, with no zone
Instants == {238, 243, 261, 266}
DateTexts ==
  {DateText(u + o, "offset", o) : u \in Instants, o \in Offsets}
    \cup {DateText(u, "none", 0) : u \in Instants}
    \cup {Garbage}
Padded(x) == <<" ", x, " ">>
Blank == <<" ">>
\* every date on an item whose other fields are there, and every shape of
\* the other fields on an item dated today
AllItems ==
  {Item(PubDate(d), Elem(T), Elem(L), Elem(C)) : d \in DateTexts}
    \cup {Item(p, Elem(T), Elem(L), c) : p \in {NoDate, EmptyDate}, c \in {Elem(C), Empty}}
    \cup {Item(TodayUtc, t, Elem(L), Elem(C)) : t \in {Absent, Empty, Elem(Blank)}}
    \cup {Item(TodayUtc, Elem(T), l, Elem(C)) : l \in {Absent, Empty, Elem(Blank)}}
    \cup {Item(TodayUtc, Elem(T), Elem(L), c) : c \in {Absent, Empty, Elem(Blank)}}
    \cup {Item(TodayUtc, Elem(Padded("T")), Elem(Padded("L")), Elem(Padded("C")))}
AllBodies == {Malformed} \cup {Document(is) : is \in SeqsUpTo(AllItems, MaxItems)}

\* main has fetched one feed into raw_feed.xml and is about to parse it
ExtractInit ==
  /\ feeds_txt = [exists |-> TRUE, lines |-> <<<<"a">>>>]
  /\ pc = "parse"
  /\ slack_token = TRUE
  /\ local_off \in Offsets
  /\ now_utc \in Clocks
  /\ urls = <<<<"a">>>>
  /\ client = "ready"
  /\ idx = 1
  /\ filename = "raw_feed.xml"
  /\ raw_feed \in AllBodies
  /\ articles = <<>>
  /\ aidx = 0
  /\ response = <<>>
  /\ posted = NoPost
  /\ lastCall = Call("save_feed_raw", "ok")
  /\ feedLog = <<NewFeed(<<"a">>, "ok")>>

ExtractNext == ParseFeed

ExtractSpec == ExtractInit /\ [][ExtractNext]_vars

\* ================================================================ claims

\* C2: for every item of every parsed feed document, get_feed_content
\* produces an Article for the item if and only if the item has a parsable
\* publication date whose UTC calendar date equals today and its title, link
\* and encoded content are all non-empty after trimming: the articles it
\* returns for a well-formed document are exactly the qualifying items, in
\* document order.
C2_ArticleIffQualifies ==
  (lastCall.op = "get_feed_content" /\ raw_feed.wellformed)
    => /\ lastCall.result = "returned"
       /\ articles = QualifyingArticles(raw_feed.items, now_utc, local_off)

\* C3: the same-day filter compares the publication instant converted to UTC
\* against today's calendar date in UTC: of the items of a document that
\* are valid but for their date, each date written with a zone, exactly
\* those whose instant falls on today's UTC date become articles, whatever
\* the local timezone of the process and the zone written in the date.
OtherwiseValid(item) ==
  /\ item.pubDate.kind = "text"
  /\ item.pubDate.text.form = "rfc2822"
  /\ item.pubDate.text.zone = "offset"
  /\ item.title.kind = "text" /\ strip(item.title.text) # <<>>
  /\ item.link.kind = "text" /\ strip(item.link.text) # <<>>
  /\ item.content.kind = "text" /\ strip(item.content.text) # <<>>
UtcDate(item) == (item.pubDate.text.wall - item.pubDate.text.off) \div 24
OnUtcToday(item) == UtcDate(item) = now_utc \div 24
C3_UtcSameDayFilter ==
  ( /\ lastCall.op = "get_feed_content"
    /\ raw_feed.wellformed
    /\ \A i \in 1..Len(raw_feed.items) : OtherwiseValid(raw_feed.items[i]) )
    => Len(articles) = Len(SelectSeq(raw_feed.items, OnUtcToday))

\* totals over the feeds of the run
RECURSIVE Total(_, _)
Total(log, field) ==
  IF log = <<>> THEN 0
  ELSE (CASE field = "summarized" -> Head(log).summarized
          [] field = "notified" -> Head(log).notified
          [] OTHER -> Head(log).qualifying) + Total(Tail(log), field)

\* the run moved on from feed i: it is at the fetch of feed i+1, or at the
\* end of main when feed i was the last
MovedOnFrom(i) ==
  IF i < Len(urls) THEN pc = "fetch" /\ idx = i + 1 ELSE pc = "done"

\* C1: a feed whose fetch failed contributes no parse, summarize or notify
\* step and does not stop the run: right after the failure the run is at
\* the fetch of the next feed (or at the end of main after the last feed),
\* and every later state of the run has the next feed fetched.
C1_FetchFailureSkipsFeedOnly ==
  \A i \in 1..Len(feedLog) :
    feedLog[i].fetch = "failed"
      => /\ feedLog[i].parse = "none"
         /\ feedLog[i].summarized = 0
         /\ feedLog[i].notified = 0
         /\ IF i = Len(feedLog) THEN MovedOnFrom(i) ELSE feedLog[i + 1].fetch # "none"

\* a run in which a fetch failed and a later feed had an article summarized
\* and posted
C1_Witness ==
  \E i, j \in 1..Len(feedLog) :
    /\ i < j
    /\ feedLog[i].fetch = "failed"
    /\ feedLog[j].fetch = "ok"
    /\ feedLog[j].summarized > 0
    /\ feedLog[j].notified > 0

\* C4: when summarization of an article fails the run ends at once with a
\* failure status: no notify call is made for that article, and from the
\* failed exit nothing more is summarized, notified or fetched.
C4_SummarizeFailureEndsRun ==
  [][ /\ (pc = "summarize" /\ lastCall' = Call("ai_summary", "failed"))
         => /\ pc' = "exit1"
            /\ Len(feedLog') = Len(feedLog)
            /\ Total(feedLog', "notified") = Total(feedLog, "notified")
      /\ pc = "exit1" => UNCHANGED vars ]_vars

\* the run ended on a failed summarization with articles and feeds left
C4_Witness ==
  /\ pc = "exit1"
  /\ lastCall = Call("ai_summary", "failed")
  /\ aidx < Len(articles)
  /\ idx < Len(urls)

\* the position after the article at aidx of the feed at idx is done with
AfterArticle ==
  IF aidx < Len(articles) THEN pc' = "summarize" /\ aidx' = aidx + 1 /\ idx' = idx
  ELSE IF idx < Len(urls) THEN pc' = "fetch" /\ idx' = idx + 1
  ELSE pc' = "done"

\* C5: a delivery call that raises or answers not-ok does not abort the
\* run: the run goes on to the next article of the feed, else to the next
\* feed, else to the end of main.
C5_DeliveryFailureGoesOn ==
  [][ ( /\ pc = "notify"
        /\ lastCall'.op = "send_slack_message"
        /\ lastCall'.result \in {"not_ok", "raised"} )
      => AfterArticle ]_vars

\* in the second feed of a run, the delivery of the first article raised
\* and the run is at the summarize call of the second article
C5_Witness ==
  /\ lastCall = Call("send_slack_message", "raised")
  /\ pc = "summarize"
  /\ aidx = 2
  /\ Len(feedLog) = 2
  /\ feedLog[1].notified > 0

\* C6 as stated: without the credential the run fails before any feed is
\* fetched and before any article is summarized.
C6_NoTokenFailsAtStartup ==
  ~slack_token => feedLog = <<>>

\* C6, amended: the missing credential is found by the first notify call.
\* Without it no message is ever posted and at most one notify call is made
\* in the run; that call ends the run with a failure status, after the feed
\* was fetched and the article summarized.
C6_NoTokenFailsAtFirstNotify ==
  ~slack_token
    => /\ ~(lastCall.op = "send_slack_message" /\ lastCall.result \in PostOutcomes)
       /\ Total(feedLog, "notified") <= 1
       /\ Total(feedLog, "notified") = 1
            => /\ pc = "exit1"
               /\ lastCall = Call("send_slack_message", "no_token")
               /\ Total(feedLog, "summarized") = 1

\* without the credential, the run failed at the notify call of the first
\* article of its second feed
C6_Witness ==
  /\ ~slack_token
  /\ pc = "exit1"
  /\ lastCall = Call("send_slack_message", "no_token")
  /\ Len(feedLog) = 2
  /\ feedLog[2].summarized = 1

\* C7: a feed document that fails to parse gives no articles and is fatal to
\* that feed only: no summarize or notify call is made for it, and the run
\* goes on to the next feed (or to the end of main after the last feed).
C7_ParseFailureSkipsFeedOnly ==
  \A i \in 1..Len(feedLog) :
    feedLog[i].parse = "malformed"
      => /\ feedLog[i].summarized = 0
         /\ feedLog[i].notified = 0
         /\ IF i = Len(feedLog)
            THEN articles = <<>> /\ MovedOnFrom(i)
            ELSE feedLog[i + 1].fetch # "none"

\* a first feed that did not parse, and a second feed whose article went to
\* the notify call
C7_Witness ==
  /\ Len(feedLog) >= 2
  /\ feedLog[1].parse = "malformed"
  /\ feedLog[2].notified > 0

\* C8: in a run that ends without a fatal condition, the summarize calls
\* and the notify calls both number the qualifying items of the feeds that
\* were fetched and parsed.
C8_CallsEqualQualifyingItems ==
  pc = "done"
    => /\ Total(feedLog, "summarized") = Total(feedLog, "qualifying")
       /\ Total(feedLog, "notified") = Total(feedLog, "qualifying")

\* C9: with a feeds.txt that holds no usable URL, main goes from loading the
\* sources straight to its end with success: the summarization client is
\* neither connected nor initialised and nothing is fetched, summarized or
\* notified.
NoUsableLine ==
  /\ feeds_txt.exists
  /\ \A i \in 1..Len(feeds_txt.lines) :
       \A k \in 1..Len(feeds_txt.lines[i]) : feeds_txt.lines[i][k] = " "
C9_EmptySourcesGoStraightToDone ==
  (NoUsableLine /\ pc # "load")
    => /\ pc = "done"
       /\ client = "none"
       /\ feedLog = <<>>
       /\ lastCall.op = "get_feed_list"

\* main ended on a feeds.txt of blank lines
C9_Witness ==
  /\ pc = "done"
  /\ feeds_txt.exists
  /\ Len(feeds_txt.lines) = MaxLines
  /\ urls = <<>>

\* C10: every run in which each call returns reaches a terminal state: the
\* end of main with success, every URL of the list then attempted exactly
\* once and in order, or a failed exit.
C10_RunTerminates ==
  /\ <>(pc \in Terminal)
  /\ [](pc = "done"
          => /\ Len(feedLog) = Len(urls)
             /\ \A i \in 1..Len(urls) :
                  feedLog[i].url = urls[i] /\ feedLog[i].fetch # "none")

\* main ended with success after a list of MaxLines URLs
C10_Witness ==
  /\ pc = "done"
  /\ Len(urls) = MaxLines
  /\ Len(feedLog) = MaxLines

\* C11: feed URLs are processed once per line of feeds.txt, in source order
\* and without deduplication: urls is the non-blank lines, trimmed, every
\* feed iteration begun is for the url at its position in that list, and a
\* run that comes to the end of main has made one iteration per line.
NotSpace(c) == c # " "
UsableLine(line) == SelectSeq(line, NotSpace) # <<>>
ExpectedUrls ==
  LET usable == SelectSeq(feeds_txt.lines, UsableLine)
  IN [i \in 1..Len(usable) |-> SelectSeq(usable[i], NotSpace)]
C11_OncePerLineInOrder ==
  (feeds_txt.exists /\ pc # "load")
    => /\ urls = ExpectedUrls
       /\ Len(feedLog) <= Len(ExpectedUrls)
       /\ \A i \in 1..Len(feedLog) : feedLog[i].url = ExpectedUrls[i]
       /\ pc = "done" => Len(feedLog) = Len(ExpectedUrls)

\* the same url on two lines: its first fetch failed, its second gave an
\* article that went to the notify call
C11_Witness ==
  /\ pc = "done"
  /\ Len(feedLog) = 2
  /\ feedLog[1].url = feedLog[2].url
  /\ feedLog[1].fetch = "failed"
  /\ feedLog[2].notified > 0

\* C12: an item whose publication date is present but does not parse is
\* skipped without stopping extraction: get_feed_content does with the
\* document what it does with the document without that item, so the items
\* after it are evaluated and those that make an Article still do.
Unparsable(item) ==
  item.pubDate.kind # "absent" /\ (item.pubDate.kind = "empty" \/ item.pubDate.text.form = "garbage")
Without(items, i) == SubSeq(items, 1, i - 1) \o SubSeq(items, i + 1, Len(items))
C12_UnparsableDateSkipsItemOnly ==
  (lastCall.op = "get_feed_content" /\ raw_feed.wellformed)
    => \A i \in 1..Len(raw_feed.items) :
         Unparsable(raw_feed.items[i])
           => LET rest == get_feed_content(Document(Without(raw_feed.items, i)),
                                           now_utc, local_off)
              IN /\ (lastCall.result = "raised") = rest.raised
                 /\ ~rest.raised => articles = rest.articles

\* a document whose first item has a date that does not parse and whose
\* second item became an Article
C12_Witness ==
  /\ lastCall = Call("get_feed_content", "returned")
  /\ Len(raw_feed.items) = 2
  /\ raw_feed.items[1].pubDate.kind = "text"
  /\ raw_feed.items[1].pubDate.text.form = "garbage"
  /\ Len(articles) = 1
  /\ pc = "summarize"

\* C13: processing is strictly sequential in list order.  The fetch of the
\* next feed happens only when the feed before it was skipped or every one
\* of its articles has been through its summarize and its notify call; and
\* within a feed the articles, which are in document order, are handled one
\* at a time: at the summarize call of article k the k-1 articles before it
\* have been summarized and notified, at its notify call it has been
\* summarized too.
Triple(item) == <<strip(item.title.text), strip(item.link.text), strip(item.content.text)>>
RECURSIVE IsSubsequence(_, _)
IsSubsequence(as, items) ==
  IF as = <<>> THEN TRUE
  ELSE IF items = <<>> THEN FALSE
  ELSE IF Head(as) = Triple(Head(items)) /\ IsSubsequence(Tail(as), Tail(items)) THEN TRUE
  ELSE IsSubsequence(as, Tail(items))
CurrentFeed == feedLog[Len(feedLog)]
FeedFinished ==
  \/ CurrentFeed.fetch = "failed"
  \/ /\ CurrentFeed.parse # "none"
     /\ CurrentFeed.summarized = Len(articles)
     /\ CurrentFeed.notified = Len(articles)
OneAtATime ==
  /\ pc = "summarize"
       => /\ aidx \in 1..Len(articles)
          /\ CurrentFeed.summarized = aidx - 1
          /\ CurrentFeed.notified = aidx - 1
          /\ IsSubsequence(articles, raw_feed.items)
  /\ pc = "notify"
       => /\ aidx \in 1..Len(articles)
          /\ CurrentFeed.summarized = aidx
          /\ CurrentFeed.notified = aidx - 1
C13_StrictlySequential ==
  [][ /\ (Len(feedLog) > 0 /\ Len(feedLog') > Len(feedLog)) => FeedFinished
      /\ OneAtATime' ]_vars

\* the second feed was fetched after both articles of the first had been
\* summarized and notified
C13_Witness ==
  /\ Len(feedLog) = 2
  /\ feedLog[1].summarized = 2
  /\ feedLog[1].notified = 2
  /\ pc = "parse"

\* C14: no Article crosses feed boundaries.  raw_feed.xml is written only
\* by the successful fetch of the current iteration; get_feed_content is
\* called only right after that fetch, never after a failed one, so what an
\* earlier feed or an earlier run left in the file is not parsed; and the
\* articles being summarized and notified are those of the items of the
\* document fetched in the iteration.
C14_NoArticleCrossesFeeds ==
  [][ /\ raw_feed' # raw_feed
           => /\ pc = "fetch"
              /\ lastCall' = Call("save_feed_raw", "ok")
              /\ Len(feedLog') = idx
      /\ pc = "parse"
           => /\ lastCall = Call("save_feed_raw", "ok")
              /\ CurrentFeed.fetch = "ok"
              /\ CurrentFeed.url = urls[idx]
              /\ Len(feedLog) = idx
              /\ raw_feed' = raw_feed
      /\ pc' \in {"summarize", "notify"}
           => /\ CurrentFeed'.fetch = "ok"
              /\ CurrentFeed'.url = urls'[idx']
              /\ Len(feedLog') = idx'
              /\ IsSubsequence(articles', raw_feed'.items) ]_vars

\* the second fetch of a run failed while raw_feed.xml holds the first
\* feed's document, articles included, and the run came to its end
C14_Witness ==
  /\ pc = "done"
  /\ Len(feedLog) = 2
  /\ feedLog[1].notified > 0
  /\ feedLog[2].fetch = "failed"
  /\ feedLog[2].parse = "none"
  /\ raw_feed.exists
  /\ articles # <<>>

\* C15: the on-disk buffer for the fetched bytes is released after each
\* feed's parse step, whether the parse succeeded or failed: once
\* get_feed_content has been called for a feed, and at the end of a run that
\* parsed a feed, raw_feed.xml does not exist.
C15_BufferReleasedAfterParse ==
  ( \/ lastCall.op \in {"get_feed_content", "ai_summary", "send_slack_message"}
    \/ pc \in Terminal /\ \E i \in 1..Len(feedLog) : feedLog[i].parse # "none" )
    => ~raw_feed.exists

\* C16: no summarize call is made unless the connection to the
\* summarization capability and then the model initialisation have both
\* succeeded earlier in the run; when either fails the run ends with a
\* failure status before any feed is fetched.
SummarizerReady ==
  /\ (feedLog # <<>> \/ pc \in {"fetch", "parse", "summarize", "notify"}) => client = "ready"
  /\ lastCall \in {Call("ai_connect", "failed"), Call("ai_model", "failed")}
       => pc = "exit1" /\ feedLog = <<>> /\ client # "ready"
C16_SummarizeOnlyAfterInit ==
  [][ /\ (client' = "connected" /\ client # "connected")
           => client = "none" /\ lastCall' = Call("ai_connect", "ok")
      /\ (client' = "ready" /\ client # "ready")
           => client = "connected" /\ lastCall' = Call("ai_model", "ok")
      /\ SummarizerReady' ]_vars

\* an article has been summarized
C16_Witness ==
  /\ pc = "notify"
  /\ client = "ready"
  /\ Total(feedLog, "summarized") = 1

\* C17: every notify call is immediately preceded by a successful summarize
\* call for the same Article and carries that Article's own title and link
\* with the summary just produced from its content; no Article is notified
\* without having been summarized, and none is notified twice.
C17_NotifyFollowsOwnSummary ==
  [][ /\ (pc = "summarize" /\ pc' = "notify")
           => /\ aidx' = aidx
              /\ articles' = articles
              /\ response' = <<"S">> \o articles[aidx][3]
      /\ pc = "notify"
           => /\ lastCall = Call("ai_summary", "ok")
              /\ response = <<"S">> \o articles[aidx][3]
              /\ CurrentFeed.summarized = aidx
              /\ CurrentFeed.notified = aidx - 1
              /\ CurrentFeed'.notified = aidx
              /\ CurrentFeed'.summarized = aidx
              /\ lastCall'.op = "send_slack_message"
              /\ lastCall'.result # "no_token"
                   => posted' = [title |-> articles[aidx][1], message |-> response,
                                 link |-> articles[aidx][2]] ]_vars

\* the second of two different articles of a feed was posted with its own
\* title, link and summary
C17_Witness ==
  /\ lastCall = Call("send_slack_message", "ok")
  /\ Len(articles) = 2
  /\ aidx = 2
  /\ articles[1] # articles[2]
  /\ posted = [title |-> articles[2][1], message |-> <<"S">> \o articles[2][3],
               link |-> articles[2][2]]

\* C18: extraction is total over items: whichever of an item's title, link
\* and encoded content are absent or present but empty, get_feed_content
\* appends an Article or skips the item and goes on; no item makes it raise
\* or stops the run.
C18_ExtractionIsTotal ==
  (lastCall.op = "get_feed_content" /\ raw_feed.exists /\ raw_feed.wellformed)
    => /\ lastCall.result = "returned"
       /\ pc # "crashed"
       /\ Len(articles) <= Len(raw_feed.items)

\* C19: an item with no publication date never becomes an Article, and a
\* feed whose items all fail the filter gives no Articles as a normal
\* outcome: get_feed_content returns, and main moves to the next feed with
\* no summarize and no notify call for the feed.
HasPubDate(item) == item.pubDate.kind # "absent"
NoItemQualifies ==
  \A i \in 1..Len(raw_feed.items) : ~Qualifies(raw_feed.items[i], now_utc, local_off)
C19_NoDateNoArticleAndEmptyFeedMovesOn ==
  (lastCall.op = "get_feed_content" /\ raw_feed.exists /\ raw_feed.wellformed)
    => /\ lastCall.result = "returned"
            => Len(articles) <= Len(SelectSeq(raw_feed.items, HasPubDate))
       /\ NoItemQualifies
            => /\ lastCall.result = "returned"
               /\ articles = <<>>
               /\ MovedOnFrom(Len(feedLog))
               /\ CurrentFeed.summarized = 0
               /\ CurrentFeed.notified = 0

====
